---- MODULE Spec2Model ----
(***************************************************************************)
(* Shape-level model of model.py (SRNet generator and discriminators).     *)
(*                                                                         *)
(* A tensor is abstracted to its size (n, c, h, w) and to src, the set of  *)
(* caller-supplied inputs its value is computed from.  A forward pass that *)
(* raises is abstracted to the exception it raises: RuntimeError for a     *)
(* size mismatch in a convolution, a concatenation or an addition, and     *)
(* ValueError for batch normalisation refusing a single value per channel  *)
(* in training mode.  An exception raised by a layer propagates through    *)
(* every later layer of the same forward pass, so every layer operator     *)
(* returns an exception it is handed.                                      *)
(***************************************************************************)
EXTENDS Integers, Sequences, FiniteSets

VARIABLES training, op, args, pc, locals, log, result

vars == <<training, op, args, pc, locals, log, result>>

(* ------------------------------ bounds -------------------------------- *)

MaxBatch == 2
MaxDim == 17
MaxSkew == 1
MaxDecDim == 2
MaxDiscDim == 33

Batches == 1..MaxBatch
Dims == 1..MaxDim

(* ------------------------------ values -------------------------------- *)

T(n, c, h, w, src) == [ok |-> TRUE, n |-> n, c |-> c, h |-> h, w |-> w, src |-> src]

RuntimeError == [ok |-> FALSE, err |-> "RuntimeError"]
ValueError == [ok |-> FALSE, err |-> "ValueError"]
None == [ok |-> FALSE, err |-> "None"]

IsNone(v) == v = None

Shape(x) == <<x.c, x.h, x.w>>

(* --------------------------- exceptions ------------------------------- *)

(* Then(v, F) is "evaluate v; if that raised, the exception propagates,    *)
(* else continue with F of its value": the sequencing of Python            *)
(* statements and of nn.Sequential.  The value is bound once.              *)

Then(v, F(_)) == CHOOSE r \in {IF x.ok THEN F(x) ELSE x : x \in {v}} : TRUE

(* ------------------------- torch.nn primitives ------------------------ *)

ConvOut(size, k, s, p, d) == ((size + 2 * p - d * (k - 1) - 1) \div s) + 1

Conv2d(cin, cout, k, s, p, d, input) ==
    Then(input, LAMBDA x :
        IF x.c # cin THEN RuntimeError
        ELSE IF x.h + 2 * p < d * (k - 1) + 1 \/ x.w + 2 * p < d * (k - 1) + 1 THEN RuntimeError
        ELSE T(x.n, cout, ConvOut(x.h, k, s, p, d), ConvOut(x.w, k, s, p, d), x.src))

DeconvOut(size, k, s, p, output_padding) ==
    (size - 1) * s - 2 * p + (k - 1) + output_padding + 1

ConvTranspose2d(cin, cout, k, s, p, output_padding, input) ==
    Then(input, LAMBDA x :
        IF x.c # cin THEN RuntimeError
        ELSE T(x.n, cout, DeconvOut(x.h, k, s, p, output_padding),
               DeconvOut(x.w, k, s, p, output_padding), x.src))

BatchNorm2d(num_features, input) ==
    Then(input, LAMBDA x :
        IF training /\ x.n * x.h * x.w = 1 THEN ValueError
        ELSE IF x.c # num_features THEN RuntimeError
        ELSE x)

LeakyReLU(x) == x
Sigmoid(x) == x
Tanh(x) == x

Cat(first, second) ==
    Then(first, LAMBDA a : Then(second, LAMBDA b :
        IF a.n # b.n \/ a.h # b.h \/ a.w # b.w THEN RuntimeError
        ELSE T(a.n, a.c + b.c, a.h, a.w, a.src \cup b.src)))

Bcast(p, q) == IF p = q THEN p ELSE IF p = 1 THEN q ELSE IF q = 1 THEN p ELSE 0

Add(first, second) ==
    Then(first, LAMBDA a : Then(second, LAMBDA b :
        IF 0 \in {Bcast(a.n, b.n), Bcast(a.c, b.c), Bcast(a.h, b.h), Bcast(a.w, b.w)}
        THEN RuntimeError
        ELSE T(Bcast(a.n, b.n), Bcast(a.c, b.c), Bcast(a.h, b.h), Bcast(a.w, b.w),
               a.src \cup b.src)))

SpectralNorm(y) == y

(* ------------------------------ Residual ------------------------------ *)

(* Fault: the last 1x1 convolution does not project back to in_dim. *)
Residual_conv_NoProjection(in_dim, x) ==
    LET temp_channels == in_dim \div 4
    IN Conv2d(temp_channels, temp_channels, 1, 1, 0, 1,
         LeakyReLU(Conv2d(temp_channels, temp_channels, 3, 1, 1, 1,
           LeakyReLU(Conv2d(in_dim, temp_channels, 1, 1, 0, 1, x)))))

Residual_conv(in_dim, x) ==
    LET temp_channels == in_dim \div 4
    IN Conv2d(temp_channels, in_dim, 1, 1, 0, 1,
         LeakyReLU(Conv2d(temp_channels, temp_channels, 3, 1, 1, 1,
           LeakyReLU(Conv2d(in_dim, temp_channels, 1, 1, 0, 1, x)))))

Residual_forward(in_dim, input) ==
    Then(input, LAMBDA x :
        Then(Add(Residual_conv(in_dim, x), x), LAMBDA out :
            LeakyReLU(BatchNorm2d(in_dim, out))))

ResNet_forward(in_dim, x) ==
    Residual_forward(in_dim,
      Residual_forward(in_dim,
        Residual_forward(in_dim,
          Residual_forward(in_dim, x))))

conv_bn_relu(in_channels, out_channels, x) ==
    LeakyReLU(BatchNorm2d(out_channels, Conv2d(in_channels, out_channels, 3, 1, 1, 1, x)))

(* ------------------------------ EncoderNet ---------------------------- *)

Encoder_l1(in_dim, x) == conv_bn_relu(32, 32, conv_bn_relu(in_dim, 32, x))

(* Fault: the stride-2 convolution of l2 without padding. *)
Encoder_l2_NoPadding(x) ==
    conv_bn_relu(64, 64, conv_bn_relu(64, 64, LeakyReLU(Conv2d(32, 64, 3, 2, 0, 1, x))))

Encoder_l2(x) ==
    conv_bn_relu(64, 64, conv_bn_relu(64, 64, LeakyReLU(Conv2d(32, 64, 3, 2, 1, 1, x))))

(* Fault: the first convolution of l3 with stride 1. *)
Encoder_l3_Stride1(x) ==
    conv_bn_relu(128, 128, conv_bn_relu(128, 128, LeakyReLU(Conv2d(64, 128, 3, 1, 1, 1, x))))

Encoder_l3(x) ==
    conv_bn_relu(128, 128, conv_bn_relu(128, 128, LeakyReLU(Conv2d(64, 128, 3, 2, 1, 1, x))))

Encoder_l4(x) ==
    conv_bn_relu(256, 256, conv_bn_relu(256, 256, LeakyReLU(Conv2d(128, 256, 3, 2, 1, 1, x))))

(* Fault: the skip list returned finer first, [f1, f2]. *)
EncoderNet_forward_FinerFirst(in_dim, x, get_feature_map) ==
    Then(Encoder_l2(Encoder_l1(in_dim, x)), LAMBDA f1 :
        Then(Encoder_l3(f1), LAMBDA f2 :
            Then(Encoder_l4(f2), LAMBDA out :
                IF get_feature_map
                THEN [ok |-> TRUE, out |-> out, feats |-> <<f1, f2>>]
                ELSE out)))

EncoderNet_forward(in_dim, x, get_feature_map) ==
    Then(Encoder_l2(Encoder_l1(in_dim, x)), LAMBDA f1 :
        Then(Encoder_l3(f1), LAMBDA f2 :
            Then(Encoder_l4(f2), LAMBDA out :
                IF get_feature_map
                THEN [ok |-> TRUE, out |-> out, feats |-> <<f2, f1>>]
                ELSE out)))

(* ------------------------------ DecoderNet ---------------------------- *)

(* A Python list is a sequence; the default None of fuse and of            *)
(* feature_map_channels is the empty sequence, which is falsy like None.   *)

(* Fault: the skip map is never concatenated. *)
Skip_Ignored(fuse, i, x) == x

Skip(fuse, i, x) ==
    IF Len(fuse) > 0 /\ ~IsNone(fuse[i]) THEN Cat(x, fuse[i]) ELSE x

Decoder_conv1(cat_channels, x) == conv_bn_relu(256, 256, conv_bn_relu(cat_channels, 256, x))
Decoder_deconv1(x) == LeakyReLU(ConvTranspose2d(256, 128, 3, 2, 1, 1, x))
Decoder_conv2(cat_channels, x) == conv_bn_relu(128, 128, conv_bn_relu(cat_channels, 128, x))
(* Fault: deconv2 without output_padding. *)
Decoder_deconv2_NoOutputPadding(x) == LeakyReLU(ConvTranspose2d(128, 64, 3, 2, 1, 0, x))
Decoder_deconv2(x) == LeakyReLU(ConvTranspose2d(128, 64, 3, 2, 1, 1, x))
Decoder_conv3(cat_channels, x) == conv_bn_relu(64, 64, conv_bn_relu(cat_channels, 64, x))
(* Fault: deconv3 without output_padding. *)
Decoder_deconv3_NoOutputPadding(x) == LeakyReLU(ConvTranspose2d(64, 32, 3, 2, 1, 0, x))
Decoder_deconv3(x) == LeakyReLU(ConvTranspose2d(64, 32, 3, 2, 1, 1, x))
Decoder_conv4(x) == conv_bn_relu(32, 32, conv_bn_relu(32, 32, x))

SkipWidths(feature_map_channels) ==
    IF Len(feature_map_channels) > 0 THEN feature_map_channels ELSE <<0, 0, 0>>

DecoderNet_forward(in_dim, feature_map_channels, input, fuse, get_feature_map) ==
    Then(input, LAMBDA x :
      Then(Decoder_conv1(in_dim + SkipWidths(feature_map_channels)[1], Skip(fuse, 1, x)),
        LAMBDA f1 :
        Then(Decoder_deconv1(f1), LAMBDA d1 :
          Then(Decoder_conv2(128 + SkipWidths(feature_map_channels)[2], Skip(fuse, 2, d1)),
            LAMBDA f2 :
            Then(Decoder_deconv2(f2), LAMBDA d2 :
              Then(Decoder_conv3(64 + SkipWidths(feature_map_channels)[3], Skip(fuse, 3, d2)),
                LAMBDA f3 :
                Then(Decoder_conv4(Decoder_deconv3(f3)), LAMBDA out :
                    IF get_feature_map
                    THEN [ok |-> TRUE, out |-> out, feats |-> <<f1, f2, f3>>]
                    ELSE out)))))))

(* --------------------------- the three sub-nets ----------------------- *)

TextConversionNet_forward(in_dim, x_t, x_s) ==
    Then(ResNet_forward(256, EncoderNet_forward(in_dim, x_t, FALSE)), LAMBDA out_t :
      Then(ResNet_forward(256, EncoderNet_forward(in_dim, x_s, FALSE)), LAMBDA out_s :
        Then(Cat(out_t, out_s), LAMBDA out :
          Then(Sigmoid(Conv2d(32, 1, 3, 1, 1, 1,
                 DecoderNet_forward(2 * 256, <<>>, out, <<>>, FALSE))), LAMBDA out_sk :
            Then(DecoderNet_forward(2 * 256, <<>>, out, <<>>, FALSE), LAMBDA dec_t :
              Then(Tanh(Conv2d(32 + 1, 3, 3, 1, 1, 1,
                     conv_bn_relu(32 + 1, 32 + 1, Cat(out_sk, dec_t)))), LAMBDA last :
                  [ok |-> TRUE, out |-> <<out_sk, last>>]))))))

BackgroundInpaintingNet_forward(in_dim, x) ==
    Then(EncoderNet_forward(in_dim, x, TRUE), LAMBDA enc :
      Then(ResNet_forward(256, enc.out), LAMBDA out :
        Then(DecoderNet_forward(256, <<0, 128, 64>>, out, <<None>> \o enc.feats, TRUE),
          LAMBDA dec :
          Then(Tanh(Conv2d(32, 3, 3, 1, 1, 1, dec.out)), LAMBDA last :
              [ok |-> TRUE, out |-> last, fuse |-> dec.feats]))))

FusionNet_forward(in_dim, x, fuse) ==
    Then(ResNet_forward(256, EncoderNet_forward(in_dim, x, FALSE)), LAMBDA out :
        Tanh(Conv2d(32, 3, 3, 1, 1, 1,
               DecoderNet_forward(256, <<256, 128, 64>>, out, fuse, FALSE))))

(* ----------------------------- discriminators ------------------------- *)

Discriminator_conv1(in_dim, x) == LeakyReLU(BatchNorm2d(64, Conv2d(in_dim, 64, 3, 2, 1, 1, x)))
Discriminator_conv2(x) == LeakyReLU(BatchNorm2d(128, Conv2d(64, 128, 3, 2, 1, 1, x)))
Discriminator_conv3(x) == LeakyReLU(BatchNorm2d(256, Conv2d(128, 256, 3, 2, 1, 1, x)))
(* Fault: conv4 with stride 1. *)
Discriminator_conv4_Stride1(x) ==
    LeakyReLU(BatchNorm2d(512, Conv2d(256, 512, 3, 1, 1, 1, x)))
Discriminator_conv4(x) == LeakyReLU(BatchNorm2d(512, Conv2d(256, 512, 3, 2, 1, 1, x)))
Discriminator_conv5(x) == Sigmoid(BatchNorm2d(1, Conv2d(512, 1, 3, 1, 1, 1, x)))

Discriminator_forward(in_dim, x) ==
    Discriminator_conv5(
      Discriminator_conv4(
        Discriminator_conv3(
          Discriminator_conv2(
            Discriminator_conv1(in_dim, x)))))

SNDiscriminator_conv1(in_dim, x) == LeakyReLU(SpectralNorm(Conv2d(in_dim, 64, 3, 2, 1, 1, x)))
SNDiscriminator_conv2(x) == LeakyReLU(SpectralNorm(Conv2d(64, 128, 3, 2, 1, 1, x)))
SNDiscriminator_conv3(x) == LeakyReLU(SpectralNorm(Conv2d(128, 256, 3, 2, 1, 1, x)))
SNDiscriminator_conv4(x) == LeakyReLU(SpectralNorm(Conv2d(256, 512, 3, 2, 1, 1, x)))
SNDiscriminator_conv5(x) == Conv2d(512, 1, 3, 1, 1, 1, x)

SNDiscriminator_forward(in_dim, x) ==
    SNDiscriminator_conv5(
      SNDiscriminator_conv4(
        SNDiscriminator_conv3(
          SNDiscriminator_conv2(
            SNDiscriminator_conv1(in_dim, x)))))

EncoderDecoder_forward(in_dim, x) ==
    DecoderNet_forward(256, <<>>, EncoderNet_forward(in_dim, x, FALSE), <<>>, FALSE)

(* ------------------------------- inputs ------------------------------- *)

ImgChans == {3, 6}
ResChans == {4, 6, 8}
LatentChans == {256, 512}
SkipChans == {0, 64, 128, 256}

Images(id) == {T(n, c, h, w, {id}) : n \in Batches, c \in ImgChans, h \in Dims, w \in Dims}

ScoredImages ==
    {T(n, c, h, w, {0}) : n \in Batches, c \in ImgChans, h \in 1..MaxDiscDim, w \in 1..MaxDiscDim}

SmallImages(id) ==
    {T(n, c, h, w, {id}) : n \in Batches, c \in ImgChans,
                           h \in (MaxDim - 2)..MaxDim, w \in (MaxDim - 2)..MaxDim}

Near(size) == {d \in Dims : d >= size - MaxSkew /\ d <= size + MaxSkew}

TextImages(i_s) ==
    {T(n, 3, h, w, {1}) : n \in Batches, h \in Near(i_s.h), w \in Near(i_s.w)}

Latents ==
    {T(n, c, h, w, {0}) : n \in Batches, c \in LatentChans, h \in 1..MaxDecDim, w \in 1..MaxDecDim}

DecoderConfigs ==
    {[in_dim |-> 2 * 256, fmc |-> <<>>],
     [in_dim |-> 256, fmc |-> <<0, 128, 64>>],
     [in_dim |-> 256, fmc |-> <<256, 128, 64>>]}

Scale(i) == <<1, 2, 4>>[i]

SkipMaps(x, i) ==
    {None} \cup {T(x.n, c, x.h * Scale(i) + dh, x.w * Scale(i), {i}) : c \in SkipChans, dh \in 0..1}

Fuses(x) == {<<>>} \cup (SkipMaps(x, 1) \X SkipMaps(x, 2) \X SkipMaps(x, 3))

NoLocals == [i_t |-> None, i_s |-> None, o_sk |-> None, o_t |-> None, o_b |-> None,
             fuse |-> <<>>, o_f |-> None, x1 |-> None, x2 |-> None, o1 |-> None, o2 |-> None]

(* ------------------------------- actions ------------------------------ *)

Idle == pc = "idle"

Init ==
    /\ training = TRUE
    /\ op = "none"
    /\ args = [in_dim |-> 0]
    /\ pc = "idle"
    /\ locals = NoLocals
    /\ log = <<>>
    /\ result = None

Call(name, a, r) ==
    /\ op' = name
    /\ args' = a
    /\ result' = r
    /\ pc' = IF r.ok THEN "done" ELSE "raised"
    /\ locals' = NoLocals
    /\ log' = <<>>
    /\ UNCHANGED training

Train ==
    /\ Idle
    /\ \E mode \in BOOLEAN :
           /\ training' = mode
           /\ UNCHANGED <<op, args, pc, locals, log, result>>

(* The caller takes the result or the exception of a finished forward pass. *)
Finish ==
    /\ pc \in {"done", "raised"}
    /\ op' = "none"
    /\ args' = [in_dim |-> 0]
    /\ pc' = "idle"
    /\ locals' = NoLocals
    /\ log' = <<>>
    /\ result' = None
    /\ UNCHANGED training

Residual ==
    /\ Idle
    /\ \E in_dim \in ResChans, n \in Batches, c \in ResChans, h \in Dims, w \in Dims :
           LET x == T(n, c, h, w, {0})
           IN Call("Residual", [in_dim |-> in_dim, x |-> x], Residual_forward(in_dim, x))

ResNet ==
    /\ Idle
    /\ \E in_dim \in ResChans, n \in Batches, c \in ResChans, h \in Dims, w \in Dims :
           LET x == T(n, c, h, w, {0})
           IN Call("ResNet", [in_dim |-> in_dim, x |-> x], ResNet_forward(in_dim, x))

EncoderNet ==
    /\ Idle
    /\ \E in_dim \in ImgChans, x \in Images(0), get_feature_map \in BOOLEAN :
           Call("EncoderNet", [in_dim |-> in_dim, x |-> x, get_feature_map |-> get_feature_map],
                EncoderNet_forward(in_dim, x, get_feature_map))

EncoderDecoder ==
    /\ Idle
    /\ \E in_dim \in ImgChans, x \in Images(0) :
           Call("EncoderDecoder", [in_dim |-> in_dim, x |-> x], EncoderDecoder_forward(in_dim, x))

DecoderNet ==
    /\ Idle
    /\ \E cfg \in DecoderConfigs, x \in Latents, get_feature_map \in BOOLEAN :
           \E fuse \in Fuses(x) :
               Call("DecoderNet",
                    [in_dim |-> cfg.in_dim, fmc |-> cfg.fmc, x |-> x, fuse |-> fuse,
                     get_feature_map |-> get_feature_map],
                    DecoderNet_forward(cfg.in_dim, cfg.fmc, x, fuse, get_feature_map))

BackgroundInpaintingNet ==
    /\ Idle
    /\ \E in_dim \in ImgChans, x \in Images(0) :
           Call("BackgroundInpaintingNet", [in_dim |-> in_dim, x |-> x],
                BackgroundInpaintingNet_forward(in_dim, x))

Discriminator ==
    /\ Idle
    /\ \E in_dim \in ImgChans, x \in ScoredImages :
           Call("Discriminator", [in_dim |-> in_dim, x |-> x], Discriminator_forward(in_dim, x))

SNDiscriminator ==
    /\ Idle
    /\ \E in_dim \in ImgChans, x \in ScoredImages :
           Call("SNDiscriminator", [in_dim |-> in_dim, x |-> x], SNDiscriminator_forward(in_dim, x))

(* Generator.forward, one action per line of its body. *)

Raise(e) ==
    /\ pc' = "raised"
    /\ result' = e
    /\ UNCHANGED locals

Generator_call ==
    /\ Idle
    /\ \E i_s \in {T(n, 3, h, w, {2}) : n \in Batches, h \in Dims, w \in Dims} :
           \E i_t \in TextImages(i_s) :
               /\ op' = "Generator"
               /\ args' = [in_dim |-> 3, inputs |-> <<i_t, i_s>>]
               /\ locals' = [NoLocals EXCEPT !.i_t = i_t, !.i_s = i_s]
               /\ pc' = "l241"
               /\ log' = <<>>
               /\ result' = None
               /\ UNCHANGED training

Generator_text ==
    /\ pc = "l241"
    /\ LET r == TextConversionNet_forward(args.in_dim, locals.i_t, locals.i_s)
       IN /\ log' = Append(log, [net |-> "text_conversion_net", args |-> <<locals.i_t, locals.i_s>>])
          /\ IF r.ok
             THEN /\ locals' = [locals EXCEPT !.o_sk = r.out[1], !.o_t = r.out[2]]
                  /\ pc' = "l242"
                  /\ UNCHANGED result
             ELSE Raise(r)
    /\ UNCHANGED <<training, op, args>>

(* Fault: line 242 run on the text image. *)
Generator_background_OnText ==
    /\ pc = "l242"
    /\ LET r == BackgroundInpaintingNet_forward(args.in_dim, locals.i_t)
       IN /\ log' = Append(log, [net |-> "background_inpainting_net", args |-> <<locals.i_t>>])
          /\ IF r.ok
             THEN /\ locals' = [locals EXCEPT !.o_b = r.out, !.fuse = r.fuse]
                  /\ pc' = "l243"
                  /\ UNCHANGED result
             ELSE Raise(r)
    /\ UNCHANGED <<training, op, args>>

Generator_background ==
    /\ pc = "l242"
    /\ LET r == BackgroundInpaintingNet_forward(args.in_dim, locals.i_s)
       IN /\ log' = Append(log, [net |-> "background_inpainting_net", args |-> <<locals.i_s>>])
          /\ IF r.ok
             THEN /\ locals' = [locals EXCEPT !.o_b = r.out, !.fuse = r.fuse]
                  /\ pc' = "l243"
                  /\ UNCHANGED result
             ELSE Raise(r)
    /\ UNCHANGED <<training, op, args>>

Generator_fusion ==
    /\ pc = "l243"
    /\ LET r == FusionNet_forward(args.in_dim, locals.o_t, locals.fuse)
       IN /\ log' = Append(log, [net |-> "fusion_net", args |-> <<locals.o_t, locals.fuse>>])
          /\ IF r.ok
             THEN /\ locals' = [locals EXCEPT !.o_f = r]
                  /\ pc' = "l244"
                  /\ UNCHANGED result
             ELSE Raise(r)
    /\ UNCHANGED <<training, op, args>>

Generator_return ==
    /\ pc = "l244"
    /\ result' = [ok |-> TRUE, out |-> <<locals.o_sk, locals.o_t, locals.o_b, locals.o_f>>]
    /\ pc' = "done"
    /\ UNCHANGED <<training, op, args, locals, log>>

(* DiscriminatorMixed.forward, one action per line of its body. *)

DiscriminatorMixed_call ==
    /\ Idle
    /\ \E in_dim1 \in ImgChans, in_dim2 \in ImgChans, x1 \in SmallImages(1), x2 \in SmallImages(2) :
           /\ op' = "DiscriminatorMixed"
           /\ args' = [in_dim1 |-> in_dim1, in_dim2 |-> in_dim2, inputs |-> <<x1, x2>>]
           /\ locals' = [NoLocals EXCEPT !.x1 = x1, !.x2 = x2]
           /\ pc' = "l303"
           /\ log' = <<>>
           /\ result' = None
           /\ UNCHANGED training

DiscriminatorMixed_D1 ==
    /\ pc = "l303"
    /\ LET r == Discriminator_forward(args.in_dim1, locals.x1)
       IN /\ log' = Append(log, [net |-> "D1", args |-> <<locals.x1>>])
          /\ IF r.ok
             THEN /\ locals' = [locals EXCEPT !.o1 = r]
                  /\ pc' = "l304"
                  /\ UNCHANGED result
             ELSE Raise(r)
    /\ UNCHANGED <<training, op, args>>

(* Fault: line 304 run on the first input. *)
DiscriminatorMixed_D2_OnFirst ==
    /\ pc = "l304"
    /\ LET r == Discriminator_forward(args.in_dim2, locals.x1)
       IN /\ log' = Append(log, [net |-> "D2", args |-> <<locals.x1>>])
          /\ IF r.ok
             THEN /\ locals' = [locals EXCEPT !.o2 = r]
                  /\ pc' = "l305"
                  /\ UNCHANGED result
             ELSE Raise(r)
    /\ UNCHANGED <<training, op, args>>

DiscriminatorMixed_D2 ==
    /\ pc = "l304"
    /\ LET r == Discriminator_forward(args.in_dim2, locals.x2)
       IN /\ log' = Append(log, [net |-> "D2", args |-> <<locals.x2>>])
          /\ IF r.ok
             THEN /\ locals' = [locals EXCEPT !.o2 = r]
                  /\ pc' = "l305"
                  /\ UNCHANGED result
             ELSE Raise(r)
    /\ UNCHANGED <<training, op, args>>

DiscriminatorMixed_return ==
    /\ pc = "l305"
    /\ result' = [ok |-> TRUE, out |-> <<locals.o1, locals.o2>>]
    /\ pc' = "done"
    /\ UNCHANGED <<training, op, args, locals, log>>

Next ==
    \/ Train
    \/ Finish
    \/ Residual
    \/ ResNet
    \/ EncoderNet
    \/ EncoderDecoder
    \/ DecoderNet
    \/ BackgroundInpaintingNet
    \/ Discriminator
    \/ SNDiscriminator
    \/ Generator_call
    \/ Generator_text
    \/ Generator_background
    \/ Generator_fusion
    \/ Generator_return
    \/ DiscriminatorMixed_call
    \/ DiscriminatorMixed_D1
    \/ DiscriminatorMixed_D2
    \/ DiscriminatorMixed_return

Spec == Init /\ [][Next]_vars

(* ------------------------------ properties ---------------------------- *)

Finished == pc \in {"done", "raised"}

Half(size) == (size + 1) \div 2
Eighth(size) == Half(Half(Half(size)))

(* Batch normalisation in training mode needs more than one value per      *)
(* channel: n images of h x w values each.                                 *)
ManyValues(n, h, w) == ~training \/ n * h * w > 1

I_t == args.inputs[1]
I_s == args.inputs[2]

C1_Pre ==
    /\ op = "Generator"
    /\ Finished
    /\ I_t.c = 3 /\ I_s.c = 3
    /\ I_t.h = I_s.h /\ I_t.w = I_s.w
    /\ I_s.h % 8 = 0 /\ I_s.w % 8 = 0

C1_Post ==
    /\ pc = "done"
    /\ <<result.out[1].c, result.out[2].c, result.out[3].c, result.out[4].c>> = <<1, 3, 3, 3>>
    /\ \A i \in 1..4 : result.out[i].h = I_s.h /\ result.out[i].w = I_s.w

(* C1 as stated: for every pair of 3-channel images of the same height and *)
(* width, both divisible by 8, Generator.forward completes and returns     *)
(* four tensors of 1, 3, 3, 3 channels and of the inputs' height and width.*)
C1_Original == C1_Pre => C1_Post

(* C1, amended: the same, for a pair of equal batch size N on which batch  *)
(* normalisation sees more than one value per channel at the 1/8-scale     *)
(* bottleneck (evaluation mode, or N * H/8 * W/8 > 1).                     *)
C1_Generator_Shapes ==
    (C1_Pre /\ I_t.n = I_s.n /\ ManyValues(I_s.n, I_s.h \div 8, I_s.w \div 8)) => C1_Post

C1_Witness ==
    /\ C1_Pre
    /\ pc = "done"
    /\ training
    /\ I_t.n = 1 /\ I_s.n = 1
    /\ I_s.h = 16 /\ I_s.w = 8

(* C2: in every Generator forward pass TextConversionNet is called first,  *)
(* on (text image, style image) in that order; BackgroundInpaintingNet     *)
(* second, on the style image and never the text image; FusionNet last,    *)
(* after both, on the stylized text that TextConversionNet returned and    *)
(* the three-element bundle that BackgroundInpaintingNet returned; and the *)
(* pass returns (mask, stylized_text, background, final_image).            *)
C2_Generator_Dataflow ==
    op = "Generator" =>
        /\ Len(log) <= 3
        /\ pc = "l241" <=> Len(log) = 0
        /\ pc = "l242" => Len(log) = 1
        /\ pc = "l243" => Len(log) = 2
        /\ pc \in {"l244", "done"} => Len(log) = 3
        /\ Len(log) >= 1 =>
              log[1] = [net |-> "text_conversion_net", args |-> <<I_t, I_s>>]
        /\ Len(log) >= 2 =>
              /\ log[2] = [net |-> "background_inpainting_net", args |-> <<I_s>>]
              /\ log[2].args # <<I_t>>
        /\ Len(log) >= 3 =>
              /\ log[3].net = "fusion_net"
              /\ log[3].args[1] = TextConversionNet_forward(args.in_dim, I_t, I_s).out[2]
              /\ log[3].args[2] = BackgroundInpaintingNet_forward(args.in_dim, I_s).fuse
              /\ Len(log[3].args[2]) = 3
        /\ pc = "done" =>
              /\ result.out[1] = TextConversionNet_forward(args.in_dim, I_t, I_s).out[1]
              /\ result.out[2] = log[3].args[1]
              /\ result.out[3] = BackgroundInpaintingNet_forward(args.in_dim, I_s).out
              /\ result.out[3].src = I_s.src
              /\ result.out[4] = FusionNet_forward(args.in_dim, log[3].args[1], log[3].args[2])

C2_Witness ==
    /\ op = "Generator"
    /\ pc = "done"
    /\ Len(log) = 3
    /\ Shape(I_t) # Shape(I_s)

(* C10: whenever Generator.forward completes, its four tensors have one    *)
(* spatial size, 8 * ceil(ceil(ceil(h / 2) / 2) / 2) of the style image's  *)
(* height and width h, a multiple of 8 whether or not h is.                *)
C10_Generator_OutputSize ==
    (op = "Generator" /\ pc = "done") =>
        \A i \in 1..4 :
            /\ result.out[i].h = 8 * Eighth(I_s.h)
            /\ result.out[i].w = 8 * Eighth(I_s.w)
            /\ result.out[i].h % 8 = 0
            /\ result.out[i].w % 8 = 0

C10_Witness ==
    /\ op = "Generator"
    /\ pc = "done"
    /\ I_s.h % 8 # 0
    /\ I_t.w # I_s.w
    /\ result.out[4].h = I_s.h + 1

X == args.x

Div(k) == X.h % k = 0 /\ X.w % k = 0

SameSize(y, x) == y.n = x.n /\ y.c = x.c /\ y.h = x.h /\ y.w = x.w

C3_Pre == op = "EncoderDecoder" /\ Finished /\ X.c = args.in_dim /\ Div(8)

C3_Post == pc = "done" /\ Shape(result) = <<32, X.h, X.w>>

(* C3 as stated: for every input of height and width divisible by 8,       *)
(* EncoderNet followed by DecoderNet(256) yields 32 channels of exactly    *)
(* the input's height and width.                                           *)
C3_Original == C3_Pre => C3_Post

(* C3, amended: the same, for every such input on which batch              *)
(* normalisation sees more than one value per channel at the bottleneck    *)
(* (evaluation mode, or N * H/8 * W/8 > 1); on the others the pass raises  *)
(* ValueError.                                                             *)
C3_RoundTrip ==
    C3_Pre => IF ManyValues(X.n, X.h \div 8, X.w \div 8) THEN C3_Post ELSE result = ValueError

C3_Witness == C3_Pre /\ pc = "done" /\ training /\ X.n = 1 /\ X.h = 16 /\ X.w = 8

C4_Pre == op = "EncoderNet" /\ Finished /\ X.c = args.in_dim /\ Div(8)

C4_Post ==
    /\ pc = "done"
    /\ IF args.get_feature_map
       THEN /\ DOMAIN result = {"ok", "out", "feats"}
            /\ Shape(result.out) = <<256, X.h \div 8, X.w \div 8>>
            /\ Len(result.feats) = 2
            /\ Shape(result.feats[1]) = <<128, X.h \div 4, X.w \div 4>>
            /\ Shape(result.feats[2]) = <<64, X.h \div 2, X.w \div 2>>
       ELSE /\ "feats" \notin DOMAIN result
            /\ Shape(result) = <<256, X.h \div 8, X.w \div 8>>

(* C4 as stated: for every input of height and width divisible by 8,       *)
(* EncoderNet.forward in feature-map mode returns a (256, H/8, W/8) map    *)
(* and the skip list ((128, H/4, W/4), (64, H/2, W/2)), coarser first, and *)
(* otherwise only the final map.                                           *)
C4_Original == C4_Pre => C4_Post

(* C4, amended: the same, for every such input on which batch              *)
(* normalisation sees more than one value per channel at the last stage    *)
(* (evaluation mode, or N * H/8 * W/8 > 1); on the others the pass raises  *)
(* ValueError.                                                             *)
(* The 256 x 256 x 3 scenario: (256, 32, 32), (128, 64, 64), (64, 128, 128). *)
C4_Scenario ==
    LET r == EncoderNet_forward(3, T(1, 3, 256, 256, {0}), TRUE)
    IN /\ Shape(r.out) = <<256, 32, 32>>
       /\ <<Shape(r.feats[1]), Shape(r.feats[2])>> = <<<<128, 64, 64>>, <<64, 128, 128>>>>

C4_Encoder_Shapes ==
    /\ C4_Pre => IF ManyValues(X.n, X.h \div 8, X.w \div 8) THEN C4_Post ELSE result = ValueError
    /\ op = "EncoderNet" => C4_Scenario

C4_Witness ==
    /\ C4_Pre /\ pc = "done" /\ args.get_feature_map
    /\ training /\ X.n = 1 /\ X.h = 16 /\ X.w = 8

C5_Pre ==
    /\ op \in {"Discriminator", "SNDiscriminator"}
    /\ Finished
    /\ X.c = args.in_dim
    /\ Div(16)

C5_Post == pc = "done" /\ Shape(result) = <<1, X.h \div 16, X.w \div 16>>

(* C5 as stated: for every input of height and width divisible by 16, the  *)
(* output of Discriminator.forward and of SNDiscriminator.forward is a     *)
(* single-channel map of size H/16 x W/16.                                 *)
C5_Original == C5_Pre => C5_Post

(* C5, amended: the same for SNDiscriminator; for Discriminator the same   *)
(* on every such input on which batch normalisation sees more than one     *)
(* value per channel at the last stages (evaluation mode, or               *)
(* N * H/16 * W/16 > 1), and ValueError on the others.                     *)
C5_Discriminator_Shapes ==
    C5_Pre =>
        IF op = "SNDiscriminator" \/ ManyValues(X.n, X.h \div 16, X.w \div 16)
        THEN C5_Post
        ELSE result = ValueError

C5_Witness ==
    /\ C5_Pre /\ op = "Discriminator" /\ pc = "done"
    /\ training /\ X.n = 1 /\ X.h = 32 /\ X.w = 16

(* C6: DiscriminatorMixed.forward on (x1, x2) returns (D1(x1), D2(x2)) in  *)
(* that order: each element is what its own Discriminator returns on its   *)
(* own input alone, computed from that input only; if either raises, the   *)
(* first exception in that order is what the pass raises.                  *)
C6_Mixed_Independent ==
    (op = "DiscriminatorMixed" /\ Finished) =>
        LET d1 == Discriminator_forward(args.in_dim1, args.inputs[1])
            d2 == Discriminator_forward(args.in_dim2, args.inputs[2])
        IN IF d1.ok /\ d2.ok
           THEN /\ pc = "done"
                /\ result.out = <<d1, d2>>
                /\ result.out[1].src = args.inputs[1].src
                /\ result.out[2].src = args.inputs[2].src
           ELSE /\ pc = "raised"
                /\ result = IF ~d1.ok THEN d1 ELSE d2

C6_Witness ==
    /\ op = "DiscriminatorMixed"
    /\ pc = "done"
    /\ args.in_dim1 # args.in_dim2
    /\ args.inputs[1].n # args.inputs[2].n
    /\ args.inputs[1].h = 16
    /\ args.inputs[2].h = 17
    /\ result.out[1].h # result.out[2].h

C7_Pre ==
    /\ op \in {"Residual", "ResNet"}
    /\ Finished
    /\ args.in_dim % 4 = 0
    /\ X.c = args.in_dim

C7_Post == pc = "done" /\ SameSize(result, X)

(* C7 as stated: for every channel count C divisible by 4 and every        *)
(* spatial size, Residual(C) and the four-unit ResNet(C) return a tensor   *)
(* of exactly the input's shape.                                           *)
C7_Original == C7_Pre => C7_Post

(* C7, amended: the same, for every input on which batch normalisation     *)
(* sees more than one value per channel (evaluation mode, or               *)
(* N * H * W > 1); on the others the pass raises ValueError.               *)
C7_Residual_Shape ==
    C7_Pre => IF ManyValues(X.n, X.h, X.w) THEN C7_Post ELSE result = ValueError

C7_Witness ==
    /\ C7_Pre /\ op = "ResNet" /\ pc = "done"
    /\ args.in_dim = 8 /\ training /\ X.h = 1 /\ X.w = 1

Width(i) == SkipWidths(args.fmc)[i]

SkipAt(i) == IF Len(args.fuse) = 0 THEN None ELSE args.fuse[i]

Matching(i) ==
    /\ ~IsNone(SkipAt(i))
    /\ SkipAt(i).c = Width(i)
    /\ SkipAt(i).n = X.n
    /\ SkipAt(i).h = X.h * Scale(i)
    /\ SkipAt(i).w = X.w * Scale(i)

OtherWidth(i) == ~IsNone(SkipAt(i)) /\ SkipAt(i).c # Width(i)

C8_Pre == op = "DecoderNet" /\ Finished /\ X.c = args.in_dim

(* C8 as stated: a DecoderNet forward pass accepts at each stage either a  *)
(* skip map of the stage's configured channel count or None; a skip map of *)
(* any other channel count makes the pass fail with no output.             *)
C8_Original ==
    C8_Pre =>
        /\ (\A i \in 1..3 : IsNone(SkipAt(i)) \/ Matching(i)) => pc = "done"
        /\ (\E i \in 1..3 : OtherWidth(i)) => pc = "raised"

(* C8, amended: on an input of in_dim channels on which batch              *)
(* normalisation sees more than one value per channel, the pass accepts at *)
(* each stage a skip map of the stage's configured channel count (and of   *)
(* the stage's batch and spatial size), or None where the configured count *)
(* is 0; a skip map of any other channel count, and None where the         *)
(* configured count is not 0, make it fail with a dimension error and no   *)
(* output.                                                                 *)
C8_Decoder_Skips ==
    C8_Pre =>
        /\ pc = "done" <=>
              /\ \A i \in 1..3 : Matching(i) \/ (IsNone(SkipAt(i)) /\ Width(i) = 0)
              /\ ManyValues(X.n, X.h, X.w)
        /\ (\E i \in 1..3 : OtherWidth(i) \/ (IsNone(SkipAt(i)) /\ Width(i) # 0)) =>
              /\ pc = "raised"
              /\ ~result.ok
              /\ ManyValues(X.n, X.h, X.w) => result = RuntimeError

C8_Witness ==
    /\ C8_Pre
    /\ pc = "done"
    /\ args.fmc = <<256, 128, 64>>
    /\ \A i \in 1..3 : Matching(i)

C9_Pre == op = "BackgroundInpaintingNet" /\ Finished /\ X.c = args.in_dim

(* The skip maps (at 1/4 and at 1/2 scale) against the decoder's stage     *)
(* outputs, which are twice and four times the 1/8-scale map.              *)
SkipsAlign ==
    LET enc == EncoderNet_forward(args.in_dim, X, TRUE)
    IN enc.ok =>
        /\ enc.feats[1].h = 2 * enc.out.h /\ enc.feats[1].w = 2 * enc.out.w
        /\ enc.feats[2].h = 4 * enc.out.h /\ enc.feats[2].w = 4 * enc.out.w

(* C9 as stated: in BackgroundInpaintingNet.forward the skip maps and the  *)
(* decoder's stage outputs have equal size at both concatenations if the   *)
(* input's height and width are divisible by 8, and for every input whose  *)
(* height or width is not, the pass fails.                                 *)
C9_Original ==
    C9_Pre =>
        /\ Div(8) => SkipsAlign
        /\ ~Div(8) => pc = "raised"

(* C9, amended: they have equal size at both concatenations exactly when   *)
(* ceil(H / 2) and ceil(W / 2) are divisible by 4, that is when H and W    *)
(* are each a multiple of 8 or one less; the pass then returns a           *)
(* 3-channel image of size 8 * ceil(H / 8) x 8 * ceil(W / 8), unless batch *)
(* normalisation sees a single value per channel (ValueError); for every   *)
(* other input the pass fails, with a dimension error unless that          *)
(* ValueError came first.                                                  *)
C9_Background_Alignment ==
    C9_Pre =>
        LET fits == Half(X.h) % 4 = 0 /\ Half(X.w) % 4 = 0
            many == ManyValues(X.n, Eighth(X.h), Eighth(X.w))
        IN /\ Div(8) => fits
           /\ many => (fits <=> SkipsAlign)
           /\ pc = "done" <=> (fits /\ many)
           /\ pc = "done" => Shape(result.out) = <<3, 8 * Eighth(X.h), 8 * Eighth(X.w)>>
           /\ ~many => result = ValueError
           /\ (many /\ ~fits) => result = RuntimeError

C9_Witness ==
    /\ C9_Pre
    /\ pc = "done"
    /\ X.h = 7 /\ X.w = 15
    /\ result.out.h = 8 /\ result.out.w = 16

====
